---- MODULE Spec2Model ----
(***************************************************************************)
(* Model of the crystal-packing helper scripts:                            *)
(*   plot_output.py  - reads a text file of primitives and draws them      *)
(*   pypacking/cli.py - click console script around rust_lib.is_prime      *)
(* Text is modelled as sequences of one-character strings so that          *)
(* startswith, re.sub, strip, split, float and int are computed.           *)
(***************************************************************************)
EXTENDS Integers, Sequences, FiniteSets, TLC

VARIABLES sys_argv, existing, content, pc, filename, srcOpen, lineNo, calls, err,
          cliArg, cliPc, number, primeCalls, primeResult, out

plotVars == <<sys_argv, existing, content, pc, filename, srcOpen, lineNo, calls, err>>
cliVars == <<cliArg, cliPc, number, primeCalls, primeResult, out>>
vars == <<sys_argv, existing, content, pc, filename, srcOpen, lineNo, calls, err,
          cliArg, cliPc, number, primeCalls, primeResult, out>>

-----------------------------------------------------------------------------
(* Bounds of the model *)

\* longest input file, in lines
MaxLines == 2
\* most command-line arguments given to plot_output.py
MaxArgs == 1
\* largest magnitude of an integer typed as NUMBER on the pypacking command line
MaxInt == 13

-----------------------------------------------------------------------------
(* Text helpers: Python str operations on sequences of characters *)

Whitespace == {" ", "\t", "\n"}

\* the characters of remove_chars = "[" + re.escape("{}[]()") + "]"
remove_chars == {"{", "}", "[", "]", "(", ")"}

DigitChars == {"0", "1", "2", "3", "4", "5", "6", "7", "8", "9"}

DigitVal(c) ==
    CASE c = "0" -> 0 [] c = "1" -> 1 [] c = "2" -> 2 [] c = "3" -> 3 [] c = "4" -> 4
      [] c = "5" -> 5 [] c = "6" -> 6 [] c = "7" -> 7 [] c = "8" -> 8 [] c = "9" -> 9

\* str.startswith
StartsWith(s, p) == Len(s) >= Len(p) /\ SubSeq(s, 1, Len(p)) = p

\* the slice s[n:]
SliceFrom(s, n) == SubSeq(s, n + 1, Len(s))

\* re.sub(remove_chars, "", s)
ReSub(s) == SelectSeq(s, LAMBDA c : c \notin remove_chars)

RECURSIVE LStrip(_)
LStrip(s) == IF s # <<>> /\ Head(s) \in Whitespace THEN LStrip(Tail(s)) ELSE s

RECURSIVE RStrip(_)
RStrip(s) ==
    IF s # <<>> /\ s[Len(s)] \in Whitespace THEN RStrip(SubSeq(s, 1, Len(s) - 1)) ELSE s

\* str.strip()
Strip(s) == RStrip(LStrip(s))

\* position of the first comma of s, 0 when there is none
FirstComma(s) ==
    LET at == {i \in 1..Len(s) : s[i] = ","}
    IN  IF at = {} THEN 0 ELSE CHOOSE i \in at : \A j \in at : i <= j

\* str.split(","): always at least one field, "" splits to [""]
RECURSIVE Split(_)
Split(s) ==
    LET i == FirstComma(s)
    IN  IF i = 0 THEN <<s>>
        ELSE <<SubSeq(s, 1, i - 1)>> \o Split(SubSeq(s, i + 1, Len(s)))

\* [element.strip() for element in line.strip().split(",")]
Elements(line) ==
    LET parts == Split(Strip(line))
    IN  [i \in 1..Len(parts) |-> Strip(parts[i])]

-----------------------------------------------------------------------------
(* Numbers: a float is the exact fraction n/d in lowest terms; d = 0 marks *)
(* a string float() rejects with ValueError                                *)

Abs(n) == IF n < 0 THEN -n ELSE n

RECURSIVE GCD(_, _)
GCD(a, b) == IF b = 0 THEN a ELSE GCD(b, a % b)

Frac(n, d) ==
    LET g == GCD(Abs(n), d)
    IN  IF n = 0 THEN [n |-> 0, d |-> 1] ELSE [n |-> n \div g, d |-> d \div g]

NaF == [n |-> 0, d |-> 0]

RECURSIVE DigitsVal(_)
DigitsVal(s) ==
    IF s = <<>> THEN 0
    ELSE DigitsVal(SubSeq(s, 1, Len(s) - 1)) * 10 + DigitVal(s[Len(s)])

RECURSIVE Pow10(_)
Pow10(k) == IF k = 0 THEN 1 ELSE 10 * Pow10(k - 1)

AllDigits(s) == \A i \in 1..Len(s) : s[i] \in DigitChars

\* float(s) for decimal literals: [sign] digits [. digits]
ToFloat(s) ==
    LET signed == s # <<>> /\ s[1] \in {"+", "-"}
        body == IF signed THEN Tail(s) ELSE s
        sign == IF signed /\ s[1] = "-" THEN -1 ELSE 1
        dots == {i \in 1..Len(body) : body[i] = "."}
        dot == IF dots = {} THEN Len(body) + 1 ELSE CHOOSE i \in dots : TRUE
        whole == SubSeq(body, 1, dot - 1)
        part == SubSeq(body, dot + 1, Len(body))
    IN  IF /\ Cardinality(dots) <= 1
           /\ AllDigits(whole) /\ AllDigits(part)
           /\ Len(whole) + Len(part) > 0
        THEN Frac(sign * (DigitsVal(whole) * Pow10(Len(part)) + DigitsVal(part)),
                  Pow10(Len(part)))
        ELSE NaF

IsFloat(s) == ToFloat(s).d # 0

\* float(r) / 2
Half(v) == Frac(v.n, 2 * v.d)

\* int(s) as click's INT type applies it; ok = FALSE marks ValueError
ToInt(s) ==
    LET signed == s # <<>> /\ s[1] \in {"+", "-"}
        body == IF signed THEN Tail(s) ELSE s
    IN  IF body # <<>> /\ AllDigits(body)
        THEN [ok |-> TRUE, v |-> (IF signed /\ s[1] = "-" THEN -1 ELSE 1) * DigitsVal(body)]
        ELSE [ok |-> FALSE, v |-> 0]

-----------------------------------------------------------------------------
(* Paths: pathlib names as character sequences *)

\* PurePath.suffix: from the last dot of the name, unless the dot is first or last
Suffix(name) ==
    LET dots == {i \in 1..Len(name) : name[i] = "."}
        last == IF dots = {} THEN 0 ELSE CHOOSE i \in dots : \A j \in dots : j <= i
    IN  IF last > 1 /\ last < Len(name) THEN SubSeq(name, last, Len(name)) ELSE <<>>

\* PurePath.with_suffix(suffix)
IdentitySuffix(name, suffix) == name

WithSuffix(name, suffix) ==
    IF Suffix(name) = <<>> THEN name \o suffix
    ELSE SubSeq(name, 1, Len(name) - Len(Suffix(name))) \o suffix

PdfSuffix == <<".", "p", "d", "f">>

ScriptName == <<"p", "l", "o", "t", "_", "o", "u", "t", "p", "u", "t", ".", "p", "y">>

\* Path("test.txt")
TestTxt == <<"t", "e", "s", "t", ".", "t", "x", "t">>

InDat == <<"i", "n", ".", "d", "a", "t">>

TestPdf == <<"t", "e", "s", "t", ".", "p", "d", "f">>

\* the file names the command line and the file system range over
PathNames == {TestTxt, InDat}

\* filename before the __main__ block binds it
NoPath == <<>>

-----------------------------------------------------------------------------
(* The line grammar of main *)

Atom2Tag == <<"A", "t", "o", "m", "2">>

LJ2Tag == <<"L", "J", "2">>

Line2Tag == <<"L", "i", "n", "e", "2">>

\* the if / elif chain on line.startswith
Tag(line) ==
    IF StartsWith(line, Atom2Tag) THEN "Atom2"
    ELSE IF StartsWith(line, LJ2Tag) THEN "LJ2"
    ELSE IF StartsWith(line, Line2Tag) THEN "Line2"
    ELSE "other"

\* the slice taken off the line in each branch: line[5:], line[3:], line[5:], line
PrefixLen_short(tag) ==
    CASE tag = "Atom2" -> 4 [] tag = "LJ2" -> 3 [] tag = "Line2" -> 4 [] OTHER -> 0

PrefixLen(tag) ==
    CASE tag = "Atom2" -> 5 [] tag = "LJ2" -> 3 [] tag = "Line2" -> 5 [] OTHER -> 0

\* number of names the list of elements is unpacked into
Targets(tag) == IF tag = "Atom2" THEN 4 ELSE 5

\* the unpacked names that are passed to float()
FloatTargets(tag) == IF tag \in {"Atom2", "LJ2"} THEN {1, 2, 3} ELSE {1, 2, 3, 4}

\* the elements of a line in its branch
LineElements(line) == Elements(ReSub(SliceFrom(line, PrefixLen(Tag(line)))))

\* radius argument of plt.Circle
Radius_unhalved(tag, r) == ToFloat(r)

Radius(tag, r) == IF tag = "LJ2" THEN Half(ToFloat(r)) ELSE ToFloat(r)

Zero == [n |-> 0, d |-> 1]

NoCall == [op |-> "none", x0 |-> Zero, y0 |-> Zero, x1 |-> Zero, y1 |-> Zero,
           r |-> Zero, colour |-> <<>>, path |-> NoPath]

\* plt.Circle((x, y), r, facecolor=colour, edgecolor=colour, ...); ax.add_patch(circle)
Circle(x, y, r, colour) ==
    [NoCall EXCEPT !.op = "circle", !.x0 = x, !.y0 = y, !.r = r, !.colour = colour]

\* ax.plot([x0, x1], [y0, y1], c=colour)
Segment(x0, y0, x1, y1, colour) ==
    [NoCall EXCEPT !.op = "segment", !.x0 = x0, !.y0 = y0, !.x1 = x1, !.y1 = y1,
                   !.colour = colour]

\* the draw call of one branch, given its unpacked elements
Draw(tag, e) ==
    IF tag \in {"Atom2", "LJ2"}
    THEN Circle(ToFloat(e[1]), ToFloat(e[2]), Radius(tag, e[3]), e[Len(e)])
    ELSE Segment(ToFloat(e[1]), ToFloat(e[2]), ToFloat(e[3]), ToFloat(e[4]), e[5])

\* one iteration of the for loop: the call it issues, or the ValueError it raises
ParseLine(line) ==
    LET tag == Tag(line)
        e == LineElements(line)
    IN  IF Len(e) # Targets(tag)
        THEN [ok |-> FALSE, err |-> "ValueError: unpack", call |-> NoCall]
        ELSE IF \E i \in FloatTargets(tag) : ~IsFloat(e[i])
        THEN [ok |-> FALSE, err |-> "ValueError: float", call |-> NoCall]
        ELSE [ok |-> TRUE, err |-> "none", call |-> Draw(tag, e)]

-----------------------------------------------------------------------------
(* Input files: the lines a file is drawn from, as the for loop yields them *)

\* Atom2 0,0,1,red\n
AtomRed ==
    <<"A", "t", "o", "m", "2", " ", "0", ",", "0", ",", "1", ",", "r", "e", "d", "\n">>

\* Atom2 (1.5, -2), 4, blue\n
AtomBracketed ==
    <<"A", "t", "o", "m", "2", " ", "(", "1", ".", "5", ",", " ", "-", "2", ")", ",",
      " ", "4", ",", " ", "b", "l", "u", "e", "\n">>

\* LJ2 0,0,4,ignored,green\n
LJGreen ==
    <<"L", "J", "2", " ", "0", ",", "0", ",", "4", ",", "i", "g", "n", "o", "r", "e",
      "d", ",", "g", "r", "e", "e", "n", "\n">>

\* LJ2 [1,1],3,,red\n
LJOdd ==
    <<"L", "J", "2", " ", "[", "1", ",", "1", "]", ",", "3", ",", ",", "r", "e", "d",
      "\n">>

\* Line2 0,0,1,1,blue\n
LineBlue ==
    <<"L", "i", "n", "e", "2", " ", "0", ",", "0", ",", "1", ",", "1", ",", "b", "l",
      "u", "e", "\n">>

\* {0, 0, 4, 1.5, red}\n
BareSegment ==
    <<"{", "0", ",", " ", "0", ",", " ", "4", ",", " ", "1", ".", "5", ",", " ", "r",
      "e", "d", "}", "\n">>

\* Atom 0,0,1,red\n
OldAtom ==
    <<"A", "t", "o", "m", " ", "0", ",", "0", ",", "1", ",", "r", "e", "d", "\n">>

\* Line 0,0,1,1,blue\n
OldLine ==
    <<"L", "i", "n", "e", " ", "0", ",", "0", ",", "1", ",", "1", ",", "b", "l", "u",
      "e", "\n">>

\* \n
BlankLine ==
    <<"\n">>

\*  \t\n
SpaceLine ==
    <<" ", "\t", "\n">>

\* Atom2 0,x,1,red\n
AtomBadNumber ==
    <<"A", "t", "o", "m", "2", " ", "0", ",", "x", ",", "1", ",", "r", "e", "d", "\n">>

\* LJ2 0,0,4,green\n
LJShort ==
    <<"L", "J", "2", " ", "0", ",", "0", ",", "4", ",", "g", "r", "e", "e", "n", "\n">>

\* 0,0,1,1,1,blue\n
BareLong ==
    <<"0", ",", "0", ",", "1", ",", "1", ",", "1", ",", "b", "l", "u", "e", "\n">>

Lines ==
    {AtomRed, AtomBracketed, LJGreen, LJOdd, LineBlue, BareSegment, OldAtom,
     OldLine, BlankLine, SpaceLine, AtomBadNumber, LJShort, BareLong}

\* the texts a file of at most MaxLines lines can hold
Files == UNION {[1..n -> Lines] : n \in 0..MaxLines}

\* sys.argv: the script name followed by at most MaxArgs arguments
ArgLists == UNION {[1..n -> PathNames] : n \in 0..MaxArgs}

Red == <<"r", "e", "d">>

Green == <<"g", "r", "e", "e", "n">>

Blue == <<"b", "l", "u", "e">>

-----------------------------------------------------------------------------
(* plot_output.py *)

PlotCall(name) == [NoCall EXCEPT !.op = name]

\* plt.savefig(path)
SaveFigCall(path) == [NoCall EXCEPT !.op = "savefig", !.path = path]

\* state of src when the with block is left by an exception: __exit__ closes it
LeftOpen == TRUE

ClosedByWith == FALSE

CliIdle ==
    /\ cliArg = [given |-> FALSE, text |-> <<>>]
    /\ cliPc = "idle"
    /\ number = [none |-> TRUE, v |-> 0]
    /\ primeCalls = <<>>
    /\ primeResult = FALSE
    /\ out = <<>>

Init ==
    /\ sys_argv \in {<<ScriptName>> \o a : a \in ArgLists}
    /\ existing \in SUBSET PathNames
    /\ content \in Files
    /\ pc = "start"
    /\ filename = NoPath
    /\ srcOpen = FALSE
    /\ lineNo = 0
    /\ calls = <<>>
    /\ err = "none"
    /\ CliIdle

\* lines 67-73: filename = Path(argv[1]) names the undefined argv
BindFilename ==
    /\ pc = "start"
    /\ IF Len(sys_argv) = 2
       THEN /\ err' = "NameError"
            /\ pc' = "raised"
            /\ UNCHANGED filename
       ELSE /\ filename' = TestTxt
            /\ pc' = "check"
            /\ UNCHANGED err
    /\ UNCHANGED <<sys_argv, existing, content, srcOpen, lineNo, calls>>
    /\ UNCHANGED cliVars

\* lines 75-76
CheckExists ==
    /\ pc = "check"
    /\ IF filename \notin existing
       THEN /\ err' = "ValueError: does not exist"
            /\ pc' = "raised"
       ELSE /\ pc' = "main"
            /\ UNCHANGED err
    /\ UNCHANGED <<sys_argv, existing, content, filename, srcOpen, lineNo, calls>>
    /\ UNCHANGED cliVars

\* line 14
Subplots ==
    /\ pc = "main"
    /\ pc' = "open"
    /\ UNCHANGED <<sys_argv, existing, content, filename, srcOpen, lineNo, calls, err>>
    /\ UNCHANGED cliVars

\* line 15: the file exists, open succeeds
OpenSrc ==
    /\ pc = "open"
    /\ srcOpen' = TRUE
    /\ pc' = "loop"
    /\ UNCHANGED <<sys_argv, existing, content, filename, lineNo, calls, err>>
    /\ UNCHANGED cliVars

\* lines 16-56, the body of the for loop on one line: the calls, the position,
\* the error and the state of src it leaves
LineStep_prepend(line, made) ==
    LET p == ParseLine(line)
    IN  IF p.ok
        THEN [calls |-> <<p.call>> \o made, pc |-> "loop", err |-> "none", open |-> TRUE]
        ELSE [calls |-> made, pc |-> "raised", err |-> p.err, open |-> ClosedByWith]

LineStep_skipMalformed(line, made) ==
    LET p == ParseLine(line)
    IN  IF p.ok
        THEN [calls |-> Append(made, p.call), pc |-> "loop", err |-> "none", open |-> TRUE]
        ELSE [calls |-> made, pc |-> "loop", err |-> "none", open |-> TRUE]

LineStep_skipBlank(line, made) ==
    LET p == ParseLine(line)
    IN  IF p.ok
        THEN [calls |-> Append(made, p.call), pc |-> "loop", err |-> "none", open |-> TRUE]
        ELSE IF Strip(line) = <<>>
        THEN [calls |-> made, pc |-> "loop", err |-> "none", open |-> TRUE]
        ELSE [calls |-> made, pc |-> "raised", err |-> p.err, open |-> ClosedByWith]

LineStep(line, made) ==
    LET p == ParseLine(line)
    IN  IF p.ok
        THEN [calls |-> Append(made, p.call), pc |-> "loop", err |-> "none", open |-> TRUE]
        ELSE [calls |-> made, pc |-> "raised", err |-> p.err, open |-> ClosedByWith]

\* lines 16-56: one iteration of the for loop
NextLine ==
    /\ pc = "loop"
    /\ lineNo < Len(content)
    /\ lineNo' = lineNo + 1
    /\ LET after == LineStep(content[lineNo + 1], calls)
       IN  /\ calls' = after.calls
           /\ pc' = after.pc
           /\ err' = after.err
           /\ srcOpen' = after.open
    /\ UNCHANGED <<sys_argv, existing, content, filename>>
    /\ UNCHANGED cliVars

\* the end of the with block once the iterator is exhausted
CloseSrc ==
    /\ pc = "loop"
    /\ lineNo = Len(content)
    /\ srcOpen' = FALSE
    /\ pc' = "aspect"
    /\ UNCHANGED <<sys_argv, existing, content, filename, lineNo, calls, err>>
    /\ UNCHANGED cliVars

\* line 58: ax.set_aspect(1)
SetAspect ==
    /\ pc = "aspect"
    /\ calls' = Append(calls, PlotCall("set_aspect"))
    /\ pc' = "origin"
    /\ UNCHANGED <<sys_argv, existing, content, filename, srcOpen, lineNo, err>>
    /\ UNCHANGED cliVars

\* line 59: ax.plot(0, 0)
PlotOrigin ==
    /\ pc = "origin"
    /\ calls' = Append(calls, PlotCall("plot_origin"))
    /\ pc' = "show"
    /\ UNCHANGED <<sys_argv, existing, content, filename, srcOpen, lineNo, err>>
    /\ UNCHANGED cliVars

\* line 61: fig.show()
Show ==
    /\ pc = "show"
    /\ calls' = Append(calls, PlotCall("show"))
    /\ pc' = "save"
    /\ UNCHANGED <<sys_argv, existing, content, filename, srcOpen, lineNo, err>>
    /\ UNCHANGED cliVars

\* line 63: plt.savefig(filename.with_suffix(".pdf")) writes the file
SaveFig ==
    /\ pc = "save"
    /\ calls' = Append(calls, SaveFigCall(WithSuffix(filename, PdfSuffix)))
    /\ existing' = existing \cup {WithSuffix(filename, PdfSuffix)}
    /\ pc' = "done"
    /\ UNCHANGED <<sys_argv, content, filename, srcOpen, lineNo, err>>
    /\ UNCHANGED cliVars

Next ==
    \/ BindFilename
    \/ CheckExists
    \/ Subplots
    \/ OpenSrc
    \/ NextLine
    \/ CloseSrc
    \/ SetAspect
    \/ PlotOrigin
    \/ Show
    \/ SaveFig

Spec == Init /\ [][Next]_vars

-----------------------------------------------------------------------------
(* pypacking/cli.py *)

DigitChar(k) == CHOOSE c \in DigitChars : DigitVal(c) = k

RECURSIVE NatText(_)
NatText(n) == IF n < 10 THEN <<DigitChar(n)>> ELSE NatText(n \div 10) \o <<DigitChar(n % 10)>>

\* how an integer is typed on the command line
IntText(n) == IF n < 0 THEN <<"-">> \o NatText(-n) ELSE NatText(n)

\* texts that are no integer: abc, 1.5, 2x and x
NonIntTexts == {<<"a", "b", "c">>, <<"1", ".", "5">>, <<"2", "x">>, <<"x">>}

\* the values the NUMBER parameter can receive from the command line
ArgTexts == {IntText(n) : n \in (-MaxInt)..MaxInt} \cup NonIntTexts

None == [none |-> TRUE, v |-> 0]

HintMessage == [kind |-> "hint", v |-> FALSE]

\* click's report of a value its INT type cannot convert
BadParameter == [kind |-> "invalid value", v |-> FALSE]

PlotIdle ==
    /\ sys_argv = <<ScriptName>>
    /\ existing = {}
    /\ content = <<>>
    /\ pc = "idle"
    /\ filename = NoPath
    /\ srcOpen = FALSE
    /\ lineNo = 0
    /\ calls = <<>>
    /\ err = "none"

InitCli ==
    /\ cliArg \in {[given |-> FALSE, text |-> <<>>]}
                      \cup {[given |-> TRUE, text |-> t] : t \in ArgTexts}
    /\ cliPc = "convert"
    /\ number = None
    /\ primeCalls = <<>>
    /\ primeResult = FALSE
    /\ out = <<>>
    /\ PlotIdle

\* line 10: @click.argument('number', nargs=1, type=int, required=False)
ClickConvert ==
    /\ cliPc = "convert"
    /\ IF ~cliArg.given
       THEN /\ number' = None
            /\ cliPc' = "guard"
            /\ UNCHANGED out
       ELSE IF ToInt(cliArg.text).ok
       THEN /\ number' = [none |-> FALSE, v |-> ToInt(cliArg.text).v]
            /\ cliPc' = "guard"
            /\ UNCHANGED out
       ELSE /\ out' = Append(out, BadParameter)
            /\ cliPc' = "exit2"
            /\ UNCHANGED number
    /\ UNCHANGED <<cliArg, primeCalls, primeResult>>
    /\ UNCHANGED plotVars

\* line 20: number and number > 2
AcceptsTwo(num) == ~num.none /\ num.v # 0 /\ num.v >= 2

Accepts(num) == ~num.none /\ num.v # 0 /\ num.v > 2

\* line 20
Guard ==
    /\ cliPc = "guard"
    /\ cliPc' = IF Accepts(number) THEN "call" ELSE "hint"
    /\ UNCHANGED <<cliArg, number, primeCalls, primeResult, out>>
    /\ UNCHANGED plotVars

\* line 21: rust_lib.is_prime(number), an external function
CallIsPrime ==
    /\ cliPc = "call"
    /\ \E result \in BOOLEAN : primeResult' = result
    /\ primeCalls' = Append(primeCalls, number.v)
    /\ cliPc' = "echo"
    /\ UNCHANGED <<cliArg, number, out>>
    /\ UNCHANGED plotVars

\* line 21: click.echo(True if ... else False)
EchoResult ==
    /\ cliPc = "echo"
    /\ out' = Append(out, [kind |-> "bool", v |-> primeResult])
    /\ cliPc' = "exit0"
    /\ UNCHANGED <<cliArg, number, primeCalls, primeResult>>
    /\ UNCHANGED plotVars

\* lines 23-24
EchoHint ==
    /\ cliPc = "hint"
    /\ out' = Append(out, HintMessage)
    /\ cliPc' = "exit0"
    /\ UNCHANGED <<cliArg, number, primeCalls, primeResult>>
    /\ UNCHANGED plotVars

NextCli ==
    \/ ClickConvert
    \/ Guard
    \/ CallIsPrime
    \/ EchoResult
    \/ EchoHint

SpecCli == InitCli /\ [][NextCli]_vars

-----------------------------------------------------------------------------
(* Vocabulary of the properties *)

\* the run of plot_output.py has ended, by an exception or after the save
Terminated == pc \in {"raised", "done"}

\* main has been entered: the __main__ block found the file
InMain ==
    /\ pc \notin {"start", "check"}
    /\ err \notin {"NameError", "ValueError: does not exist"}

\* the for loop has consumed the whole file without raising
LoopDone == pc \in {"aspect", "origin", "show", "save", "done"}

\* the path the command line asks for: its one argument, or test.txt
RequestedPath == IF Len(sys_argv) = 2 THEN sys_argv[2] ELSE TestTxt

Tagged(line) ==
    StartsWith(line, Atom2Tag) \/ StartsWith(line, LJ2Tag) \/ StartsWith(line, Line2Tag)

\* the comma-separated fields of a line once its tag and the brackets are removed
FieldsOf(line) ==
    LET rest == IF StartsWith(line, LJ2Tag) THEN SliceFrom(line, 3)
                ELSE IF Tagged(line) THEN SliceFrom(line, 5)
                ELSE line
    IN  Elements(ReSub(rest))

\* field count and numeric fields of each branch, as the format table gives them
WellFormed(line) ==
    LET f == FieldsOf(line)
    IN  IF StartsWith(line, Atom2Tag)
        THEN Len(f) = 4 /\ \A i \in 1..3 : IsFloat(f[i])
        ELSE IF StartsWith(line, LJ2Tag)
        THEN Len(f) = 5 /\ \A i \in 1..3 : IsFloat(f[i])
        ELSE Len(f) = 5 /\ \A i \in 1..4 : IsFloat(f[i])

ExpectedOp(line) ==
    IF StartsWith(line, Atom2Tag) \/ StartsWith(line, LJ2Tag) THEN "circle" ELSE "segment"

IsDraw(c) == c.op \in {"circle", "segment"}

DrawCalls == SelectSeq(calls, IsDraw)

FinalCalls == SelectSeq(calls, LAMBDA c : ~IsDraw(c))

\* 2 * half = whole, on fractions
IsHalfOf(half, whole) == half.d # 0 /\ whole.d # 0 /\ 2 * half.n * whole.d = whole.n * half.d

Num(n) == [n |-> n, d |-> 1]

-----------------------------------------------------------------------------
(* Properties *)

\* C1: when every line read so far is well-formed for its branch, no line has
\* raised and the draw calls are one per line read, in file order, a circle for
\* an Atom2 or LJ2 line and a segment for a Line2 or untagged line; once the
\* loop is over every line of the file has its call.
C1_OneCallPerLine ==
    (\A k \in 1..lineNo : WellFormed(content[k])) =>
        /\ pc # "raised" \/ lineNo = 0
        /\ Len(DrawCalls) = lineNo
        /\ \A k \in 1..lineNo :
              /\ calls[k].op = ExpectedOp(content[k])
              /\ calls[k] = ParseLine(content[k]).call
        /\ LoopDone => lineNo = Len(content)

C1_Witness ==
    /\ pc = "done"
    /\ Len(content) = 2
    /\ StartsWith(content[1], LJ2Tag)
    /\ ~Tagged(content[2])
    /\ \A k \in 1..2 : WellFormed(content[k])
    /\ Len(DrawCalls) = 2

\* C2: if line k is the first malformed line, then from the moment line k is read
\* the run has failed at line k: the calls are exactly the draws of lines
\* 1..k-1, no later line is read, no finalisation call is made and nothing
\* is saved.
C2_FailsAtMalformedLine ==
    \A k \in 1..Len(content) :
        (/\ ~WellFormed(content[k])
         /\ \A j \in 1..(k - 1) : WellFormed(content[j])
         /\ lineNo >= k) =>
            /\ pc = "raised"
            /\ err \in {"ValueError: unpack", "ValueError: float"}
            /\ lineNo = k
            /\ calls = [j \in 1..(k - 1) |-> ParseLine(content[j]).call]
            /\ FinalCalls = <<>>
            /\ WithSuffix(filename, PdfSuffix) \notin existing

C2_Witness ==
    /\ pc = "raised"
    /\ lineNo = 2
    /\ WellFormed(content[1])
    /\ ~WellFormed(content[2])
    /\ Len(calls) = 1

\* C3: when the requested path (the argument, or test.txt by default) names no
\* existing file, the run ends with the existence error before main is entered:
\* the file was never opened, no line was read, no call was made, nothing was
\* written.
C3_MissingFileExistenceError ==
    (Terminated /\ RequestedPath \notin existing) =>
        /\ err = "ValueError: does not exist"
        /\ ~srcOpen
        /\ lineNo = 0
        /\ calls = <<>>

\* C4: the file that is checked and parsed is the one argument when exactly one
\* is given, and test.txt when none is given.
C4_ArgumentSelectsFile ==
    (pc # "start" /\ Len(sys_argv) <= 2) => filename = RequestedPath

\* C5 as stated: the file of the two lines "Atom 0,0,1,red" and
\* "Line 0,0,1,1,blue" is processed without raising, drawing a red circle of
\* radius 1 at the origin and a blue segment from (0,0) to (1,1), and the
\* output is written to the input name with the extension replaced.
C5_AtomLineFile ==
    (content = <<OldAtom, OldLine>> /\ InMain) =>
        /\ pc # "raised"
        /\ lineNo >= 1 => calls[1] = Circle(Num(0), Num(0), Num(1), Red)
        /\ lineNo >= 2 => calls[2] = Segment(Num(0), Num(0), Num(1), Num(1), Blue)
        /\ pc = "done" => TestPdf \in existing /\ calls[Len(calls)].path = TestPdf

\* C5 amended: the same with the tags this script recognises, "Atom2 0,0,1,red"
\* and "Line2 0,0,1,1,blue".
C5_Atom2Line2File ==
    (content = <<AtomRed, LineBlue>> /\ InMain) =>
        /\ pc # "raised"
        /\ lineNo >= 1 => calls[1] = Circle(Num(0), Num(0), Num(1), Red)
        /\ lineNo >= 2 => calls[2] = Segment(Num(0), Num(0), Num(1), Num(1), Blue)
        /\ pc = "done" => TestPdf \in existing /\ calls[Len(calls)].path = TestPdf

C5_Witness ==
    /\ content = <<AtomRed, LineBlue>>
    /\ pc = "done"
    /\ TestPdf \in existing

\* C6: the circle drawn for a line has the third field as its radius for an
\* Atom2 line and half the third field for an LJ2 line; the fourth field of an
\* LJ2 line is not converted, and "LJ2 0,0,4,ignored,green" draws a green
\* circle of radius 2 at the origin.
C6_CircleRadius ==
    \A k \in 1..Len(DrawCalls) :
        /\ StartsWith(content[k], Atom2Tag) =>
              /\ calls[k].op = "circle"
              /\ calls[k].r = ToFloat(FieldsOf(content[k])[3])
        /\ StartsWith(content[k], LJ2Tag) =>
              /\ calls[k].op = "circle"
              /\ IsHalfOf(calls[k].r, ToFloat(FieldsOf(content[k])[3]))
              /\ calls[k].colour = FieldsOf(content[k])[5]
        /\ content[k] = LJGreen => calls[k] = Circle(Num(0), Num(0), Num(2), Green)
        /\ content[k] = LJOdd => calls[k].r = [n |-> 3, d |-> 2]

C6_Witness ==
    /\ pc = "done"
    /\ content = <<LJGreen, AtomBracketed>>
    /\ calls[1].r = Num(2)
    /\ calls[2].r = Num(4)
    /\ ~IsFloat(FieldsOf(LJGreen)[4])

\* C8: a line without a recognised tag is parsed as a segment and needs exactly
\* five fields once the brackets are removed; with any other count the run fails
\* at that line, and an empty or whitespace-only line, a trailing one included,
\* fails and is never skipped.
C8_FallbackNeedsFiveFields ==
    \A k \in 1..lineNo :
        ~Tagged(content[k]) =>
            /\ Len(Elements(ReSub(content[k]))) # 5 =>
                  pc = "raised" /\ err = "ValueError: unpack" /\ lineNo = k
            /\ (pc # "raised" \/ lineNo > k) =>
                  /\ Len(Elements(ReSub(content[k]))) = 5
                  /\ calls[k].op = "segment"
            /\ Strip(content[k]) = <<>> =>
                  pc = "raised" /\ lineNo = k /\ Len(calls) = k - 1

C8_Witness ==
    /\ pc = "raised"
    /\ lineNo = 2
    /\ Len(content) = 2
    /\ content[2] \in {BlankLine, SpaceLine}
    /\ Len(calls) = 1

\* C9: the source file is open exactly while the line loop runs; it is closed
\* when the loop ends, before the finalisation, and when a line raises, so it
\* is never open in a final state.
C9_SrcOpenOnlyInLoop ==
    /\ srcOpen <=> pc = "loop"
    /\ Terminated => ~srcOpen

C9_Witness ==
    /\ pc = "raised"
    /\ err \in {"ValueError: unpack", "ValueError: float"}
    /\ lineNo = 2
    /\ ~srcOpen

-----------------------------------------------------------------------------
(* Properties of the console script *)

CliDone == cliPc \in {"exit0", "exit2"}

\* the argument is an integer greater than 2, as typed
Qualifies == cliArg.given /\ \E n \in 3..MaxInt : cliArg.text = IntText(n)

IsNonInteger == cliArg.given /\ cliArg.text \in NonIntTexts

TypedValue == CHOOSE n \in 3..MaxInt : cliArg.text = IntText(n)

\* C7 as stated: is_prime is called once, and its boolean printed, only for an
\* integer argument greater than 2; for an absent argument, an integer <= 2 or a
\* non-integer the hint message is printed and is_prime is not called.
C7_HintUnlessGreaterThanTwo ==
    CliDone =>
        IF Qualifies
        THEN /\ primeCalls = <<TypedValue>>
             /\ out = <<[kind |-> "bool", v |-> primeResult]>>
        ELSE /\ primeCalls = <<>>
             /\ out = <<HintMessage>>

\* C7 amended: as stated for an integer greater than 2, an absent argument and
\* an integer <= 2; a non-integer is rejected by the argument conversion, which
\* reports an invalid value, and then neither the hint nor a boolean is printed
\* and is_prime is not called.
C7_HintOrRejection ==
    /\ Len(primeCalls) <= 1
    /\ primeCalls # <<>> => Qualifies
    /\ CliDone =>
          IF Qualifies
          THEN /\ primeCalls = <<TypedValue>>
               /\ out = <<[kind |-> "bool", v |-> primeResult]>>
               /\ cliPc = "exit0"
          ELSE IF IsNonInteger
          THEN /\ primeCalls = <<>>
               /\ out = <<BadParameter>>
               /\ cliPc = "exit2"
          ELSE /\ primeCalls = <<>>
               /\ out = <<HintMessage>>
               /\ cliPc = "exit0"

C7_Witness ==
    /\ cliPc = "exit0"
    /\ cliArg.text = IntText(2)
    /\ out = <<HintMessage>>
    /\ primeCalls = <<>>

====
